---- MODULE Spec2Model ----
(***************************************************************************)
(* Per-sender message queue of src/app.ts (userQueues, userLocks,          *)
(* handleQueue, processUserMessage, welcomeFlow, anyMessageFlow) on the    *)
(* single-threaded JavaScript event loop.  A handler runs without          *)
(* interruption from one `await` to the next, so every action below is one *)
(* such synchronous segment: it starts when an inbound event is delivered  *)
(* or when an awaited promise settles and it ends at the next `await` or   *)
(* at the handler's return.  Every state of the model is therefore a       *)
(* suspension point of the program.                                        *)
(*                                                                         *)
(* The store side (registerFlow of src/app.ts and the PostgreSQLDB class:  *)
(* init, saveUserProfile, updateState, getUserProfile, getState) is        *)
(* modelled the same way and explored on its own, under StoreSpec.         *)
(***************************************************************************)
EXTENDS Integers, Sequences, FiniteSets, TLC

\* ------------------------------------------------------------------ bounds
MaxEvents == 3      \* inbound events delivered by the transport in one run
MaxChunks == 2      \* chunks response.split(/\n\n+/) yields for one answer
MaxCalls == 2       \* registerFlow invocations and updateState calls in one run

\* --------------------------------------------------------------- constants
Keys == {"U1", "U2"}            \* ctx.from values (sender keys)
Names == {"Maria", "Ana"}       \* names stored in user_profiles
NoName == "-"                   \* no profile row / no mirror entry
NoKey == "-"                    \* key of an event that has not arrived
NoEntry == 0                    \* Map.get() === undefined
Events == 1 .. MaxEvents        \* one handler invocation (and one task) each
Calls == 1 .. MaxCalls          \* one registerFlow or updateState call each
InitStatements == 4             \* the db.none statements of init()

VARIABLES
  userQueues,     \* app.ts:19  Map: key -> array (named by the event whose
                  \*            handler created it), NoEntry when absent
  userLocks,      \* app.ts:20  Map: key -> "absent" | "true" | "false"
  userProfiles,   \* app.ts:21  Map: key -> name, NoName when absent
  heap,           \* contents of the arrays userQueues and the loops refer to
  handlers,       \* position of the handler invocation of every event
  nEvents,        \* number of events delivered so far
  dbProfiles,     \* the user_profiles table: a sequence of rows
  dbStates,       \* the states table: a sequence of rows
  calls,          \* position of every registerFlow / updateState call
  nCalls,         \* number of such calls made so far
  lastProfile,    \* history: per key, the name of the latest successful
                  \*          saveUserProfile (NoName when there is none)
  lastState,      \* history: per key, the data of the latest successful
                  \*          updateState (NoData when there is none)
  initialized,    \* PostgreSQLDB.initialized
  pushed,         \* history: per key, the tasks in the order of queue.push
  started,        \* history: per key, the tasks in the order in which
                  \*          processUserMessage was called on them
  failed          \* history: the tasks whose processUserMessage rejected

\* What the store side of the model adds to the queue side, and back.
storeVars == <<dbStates, calls, nCalls, lastProfile, lastState>>
queueVars == <<userQueues, userLocks, heap, handlers, nEvents, pushed, started,
               failed>>

vars == <<userQueues, userLocks, userProfiles, heap, handlers, nEvents,
          dbProfiles, initialized, pushed, started, failed, storeVars>>

\* A handler that has not been invoked yet.
NoHandler == [key |-> NoKey, pc |-> "new", queue |-> NoEntry, task |-> 0,
              idx |-> 0, total |-> 0]

\* pcs at which a handler is suspended inside processUserMessage
InProcess == {"typing", "toAsk", "flowDynamic"}

\* The part of the state a synchronous segment of app.ts reads and writes.
Cur == [userQueues |-> userQueues, userLocks |-> userLocks, heap |-> heap,
        handlers |-> handlers, pushed |-> pushed, started |-> started,
        failed |-> failed]

Commit(s) ==
  /\ userQueues' = s.userQueues
  /\ userLocks' = s.userLocks
  /\ heap' = s.heap
  /\ handlers' = s.handlers
  /\ pushed' = s.pushed
  /\ started' = s.started
  /\ failed' = s.failed

\* ------------------------------------------------------------ app.ts 27-37
\* processUserMessage is entered: typing(ctx, provider) is called and awaited.
processUserMessage(s, e, t) ==
  LET k == s.handlers[e].key
  IN [s EXCEPT !.handlers[e].task = t,
               !.handlers[e].pc = "typing",
               !.handlers[e].idx = 0,
               !.handlers[e].total = 0,
               !.started[k] = Append(@, t)]

\* The handler returns (or its promise rejects with `how` = "error"): the
\* invocation and its locals are gone.
Return(s, e, how) ==
  [s EXCEPT !.handlers[e] = [NoHandler EXCEPT !.key = s.handlers[e].key,
                                              !.pc = how]]

\* Variant: the lock is looked up under a key that is never set.
LockHeld_WrongKey(s, k) == FALSE

\* Variant: one lock for all senders.
LockHeld_Global(s, k) == \E k2 \in Keys : s.userLocks[k2] = "true"

\* ------------------------------------------------------------ app.ts 45/151
\* userLocks.get(userId) used as a condition.
LockHeld(s, k) == s.userLocks[k] = "true"

\* Variant: an await between the loop's last test and the two deletes.
Release_AfterAwait(s, e) == [s EXCEPT !.handlers[e].pc = "releasing"]

\* Variant: the queue entry is not deleted.
Release_KeepsQueue(s, e) ==
  Return([s EXCEPT !.userLocks[s.handlers[e].key] = "absent"], e, "done")

\* ------------------------------------------------------------ app.ts 61-63
Release(s, e) ==
  LET k == s.handlers[e].key
  IN Return([s EXCEPT !.userLocks[k] = "absent",
                      !.userQueues[k] = NoEntry], e, "done")

\* Variant: queue.pop() instead of queue.shift().
WhileLoop_Pop(s, e) ==
  LET k == s.handlers[e].key
      q == s.handlers[e].queue
      n == Len(s.heap[q])
  IN IF n > 0
       THEN processUserMessage(
              [s EXCEPT !.userLocks[k] = "true",
                        !.heap[q] = SubSeq(@, 1, n - 1)], e, s.heap[q][n])
       ELSE Release(s, e)

\* ------------------------------------------------------------ app.ts 49-63
\* The while test and what follows it up to the next await.
WhileLoop(s, e) ==
  LET k == s.handlers[e].key
      q == s.handlers[e].queue
  IN IF Len(s.heap[q]) > 0
       THEN processUserMessage(
              [s EXCEPT !.userLocks[k] = "true",
                        !.heap[q] = Tail(@)], e, Head(s.heap[q]))
       ELSE Release(s, e)

\* Variant: `if` instead of `while`: one task per handleQueue call.
Finally_NoLoop(s, e, rejected) ==
  Release([s EXCEPT !.userLocks[s.handlers[e].key] = "false",
                    !.failed = IF rejected THEN @ \cup {s.handlers[e].task}
                               ELSE @], e)

\* Variant: try/finally without catch: a rejection leaves the loop.
Finally_NoCatch(s, e, rejected) ==
  LET s1 == [s EXCEPT !.userLocks[s.handlers[e].key] = "false"]
  IN IF rejected
       THEN Return([s1 EXCEPT !.failed = @ \cup {s.handlers[e].task}], e, "error")
       ELSE WhileLoop(s1, e)

\* Variant: no try at all: a rejection leaves the loop with the lock set.
Finally_NoTry(s, e, rejected) ==
  IF rejected
    THEN Return([s EXCEPT !.failed = @ \cup {s.handlers[e].task}], e, "error")
    ELSE WhileLoop([s EXCEPT !.userLocks[s.handlers[e].key] = "false"], e)

\* Variant: a task whose processing rejected is pushed back for a retry.
Finally_Retry(s, e, rejected) ==
  LET k == s.handlers[e].key
      q == s.handlers[e].queue
      t == s.handlers[e].task
      s1 == [s EXCEPT !.userLocks[k] = "false"]
  IN WhileLoop(IF rejected
                 THEN [s1 EXCEPT !.heap[q] = Append(@, t),
                                 !.failed = @ \cup {t}]
                 ELSE s1, e)

\* ------------------------------------------------------------ app.ts 54-59
\* processUserMessage settled: catch (when it rejected), finally, loop test.
Finally(s, e, rejected) ==
  LET k == s.handlers[e].key
      s1 == IF rejected
              THEN [s EXCEPT !.failed = @ \cup {s.handlers[e].task}]
              ELSE s
  IN WhileLoop([s1 EXCEPT !.userLocks[k] = "false"], e)

\* ------------------------------------------------------------ app.ts 42-63
handleQueue(s, e) ==
  LET k == s.handlers[e].key
      queue == s.userQueues[k]
  IN IF LockHeld(s, k) THEN Return(s, e, "locked")    \* line 45
     ELSE IF queue = NoEntry THEN Return(s, e, "error")  \* undefined.length
     ELSE WhileLoop([s EXCEPT !.handlers[e].queue = queue], e)

\* Variant: every dispatcher drains the queue itself, whatever the lock says.
Dispatch_OwnLoop(s, e) ==
  LET k == s.handlers[e].key
      s1 == IF s.userQueues[k] = NoEntry
              THEN [s EXCEPT !.userQueues[k] = e, !.heap[e] = <<>>]
              ELSE s
      queue == s1.userQueues[k]
      s2 == [s1 EXCEPT !.heap[queue] = Append(@, e),
                       !.pushed[k] = Append(@, e)]
  IN WhileLoop([s2 EXCEPT !.handlers[e].queue = queue], e)

\* Variant: the dispatcher replaces an empty array by a new one.
Dispatch_FreshArray(s, e) ==
  LET k == s.handlers[e].key
      s1 == IF s.userQueues[k] = NoEntry \/ s.heap[s.userQueues[k]] = <<>>
              THEN [s EXCEPT !.userQueues[k] = e, !.heap[e] = <<>>]
              ELSE s
      queue == s1.userQueues[k]
      s2 == [s1 EXCEPT !.heap[queue] = Append(@, e),
                       !.pushed[k] = Append(@, e)]
  IN IF ~LockHeld(s2, k) /\ Len(s2.heap[queue]) = 1
       THEN handleQueue(s2, e)
       ELSE Return(s2, e, "done")

\* Variant: the dispatcher calls handleQueue after every push.
Dispatch_Unguarded(s, e) ==
  LET k == s.handlers[e].key
      s1 == IF s.userQueues[k] = NoEntry
              THEN [s EXCEPT !.userQueues[k] = e, !.heap[e] = <<>>]
              ELSE s
      queue == s1.userQueues[k]
      s2 == [s1 EXCEPT !.heap[queue] = Append(@, e),
                       !.pushed[k] = Append(@, e)]
  IN handleQueue(s2, e)

\* ---------------------------------------------------- app.ts 143-153/164-174
\* The dispatcher segment: create the queue, push, start the drain loop.
Dispatch(s, e) ==
  LET k == s.handlers[e].key
      s1 == IF s.userQueues[k] = NoEntry
              THEN [s EXCEPT !.userQueues[k] = e, !.heap[e] = <<>>]
              ELSE s
      queue == s1.userQueues[k]
      s2 == [s1 EXCEPT !.heap[queue] = Append(@, e),
                       !.pushed[k] = Append(@, e)]
  IN IF ~LockHeld(s2, k) /\ Len(s2.heap[queue]) = 1
       THEN handleQueue(s2, e)
       ELSE Return(s2, e, "done")

\* An event of sender k is delivered to a flow: its handler is invoked and
\* runs up to the point `pc` (the two flows differ only before their
\* dispatcher segments, lines 143-153 and 164-174).
Invoke(s, e, k, pc) ==
  [s EXCEPT !.handlers[e] = [NoHandler EXCEPT !.key = k, !.pc = pc]]

\* ----------------------------------------------------------- app.ts 159-175
anyMessageFlow(k) ==
  /\ nEvents < MaxEvents
  /\ nEvents' = nEvents + 1
  /\ Commit(Dispatch(Invoke(Cur, nEvents + 1, k, "invoked"), nEvents + 1))
  /\ UNCHANGED <<userProfiles, dbProfiles, initialized>>
  /\ UNCHANGED storeVars

\* ----------------------------------------------------------- app.ts 116-121
\* welcomeFlow's action is invoked and awaits database.getUserProfile.
welcomeFlow(k) ==
  /\ nEvents < MaxEvents
  /\ nEvents' = nEvents + 1
  /\ Commit(Invoke(Cur, nEvents + 1, k, "getUserProfile"))
  /\ UNCHANGED <<userProfiles, dbProfiles, initialized>>
  /\ UNCHANGED storeVars

\* ------------------------------------------------------------- JS values
\* The values handed to updateState: a plain object, given by its set of
\* <<field, value>> pairs, or a string.  A field's value is a string or
\* undefined.
Undefined == "<undefined>"
Obj(fs) == [type |-> "object", text |-> "", fields |-> fs]
Str(t) == [type |-> "string", text |-> t, fields |-> {}]
Throw == [type |-> "throw", text |-> "", fields |-> {}]     \* a rejection
NoData == [type |-> "none", text |-> "", fields |-> {}]     \* nothing saved
Data == {Obj({<<"name", "Maria">>}), Obj({<<"name", Undefined>>}), Str("Maria")}

\* --------------------------------------------------------------- part_000 195
\* JSON.stringify(data), given as the JSON value its text denotes (the JSONB
\* column stores that value): fields whose value is undefined are left out.
JSONStringify(d) ==
  IF d.type = "object" THEN Obj({f \in d.fields : f[2] # Undefined}) ELSE d

\* --------------------------------------------------------------- part_000 223
\* JSON.parse of a string: "{}" is JSON text, a bare word like Maria is not.
JSONParse(t) == IF t = "{}" THEN Obj({}) ELSE Throw

\* The rows of a table with the given user_id.
RowsOf(table, k) == {i \in DOMAIN table : table[i].user_id = k}

\* Variant: a plain INSERT on a table without the UNIQUE constraint.
Upsert_Insert(table, k, v) == Append(table, [user_id |-> k, value |-> v])

\* ------------------------------------------------- part_000 187-193, 296-302
\* INSERT ... ON CONFLICT (user_id) DO UPDATE SET <column> = $2.
Upsert(table, k, v) ==
  IF RowsOf(table, k) # {}
    THEN [i \in DOMAIN table |->
            IF table[i].user_id = k THEN [table[i] EXCEPT !.value = v]
            ELSE table[i]]
    ELSE Append(table, [user_id |-> k, value |-> v])

\* --------------------------------------------------- part_000 318-339, 46-94
\* What getUserProfile(k) settles with: "throw" when init() fails, NoName
\* when the query fails (oneOrNone also rejects on more than one row) or
\* finds no row, the row's name otherwise.
getUserProfile(k, initOk, queryOk) ==
  IF ~initialized /\ ~initOk THEN "throw"
  ELSE IF ~queryOk \/ Cardinality(RowsOf(dbProfiles, k)) > 1 THEN NoName
  ELSE IF RowsOf(dbProfiles, k) = {} THEN NoName
  ELSE dbProfiles[CHOOSE i \in RowsOf(dbProfiles, k) : TRUE].value

\* --------------------------------------------------- part_000 209-229, 46-94
\* What getState(k) settles with: a rejection when init() or the query
\* fails, {} when there is no row, else the row's data, parsed once more
\* when it is a string.
getState(k, initOk, queryOk) ==
  IF ~initialized /\ ~initOk THEN Throw
  ELSE IF ~queryOk \/ Cardinality(RowsOf(dbStates, k)) > 1 THEN Throw
  ELSE IF RowsOf(dbStates, k) = {} THEN Obj({})
  ELSE LET data == dbStates[CHOOSE i \in RowsOf(dbStates, k) : TRUE].value
       IN IF data.type = "string" THEN JSONParse(data.text) ELSE data

\* Variant: no try around the lookup: a throwing store ends the handler.
welcomeLookup_NoTry(e, initOk, queryOk) ==
  /\ handlers[e].pc = "getUserProfile"
  /\ LET k == handlers[e].key
         dbProfile == getUserProfile(k, initOk, queryOk)
         known == IF dbProfile \in Names THEN dbProfile
                  ELSE IF dbProfile = NoName THEN userProfiles[k]
                  ELSE NoName
     IN /\ initialized' = (initialized \/ initOk)
        /\ userProfiles' = IF dbProfile \in Names
                             THEN [userProfiles EXCEPT ![k] = dbProfile]
                             ELSE userProfiles
        /\ IF dbProfile = "throw" THEN Commit(Return(Cur, e, "error"))
           ELSE IF known # NoName
             THEN Commit([Cur EXCEPT !.handlers[e].pc = "greet"])
             ELSE Commit(Dispatch(Cur, e))
  /\ UNCHANGED <<nEvents, dbProfiles>>
  /\ UNCHANGED storeVars

\* ----------------------------------------------------------- app.ts 121-153
\* getUserProfile settled: greet a known user (await flowDynamic) or go on
\* to the dispatcher segment.
welcomeLookup(e, initOk, queryOk) ==
  /\ handlers[e].pc = "getUserProfile"
  /\ LET k == handlers[e].key
         dbProfile == getUserProfile(k, initOk, queryOk)
         known == IF dbProfile \in Names THEN dbProfile
                  ELSE IF dbProfile = NoName THEN userProfiles[k]
                  ELSE NoName
     IN /\ initialized' = (initialized \/ initOk)
        /\ userProfiles' = IF dbProfile \in Names
                             THEN [userProfiles EXCEPT ![k] = dbProfile]
                             ELSE userProfiles
        /\ IF known # NoName
             THEN Commit([Cur EXCEPT !.handlers[e].pc = "greet"])
             ELSE Commit(Dispatch(Cur, e))
  /\ UNCHANGED <<nEvents, dbProfiles>>
  /\ UNCHANGED storeVars

\* ----------------------------------------------------------- app.ts 126-153
\* The greeting's flowDynamic settled (a rejection is caught at line 138).
welcomeGreeted(e) ==
  /\ handlers[e].pc = "greet"
  /\ Commit(Dispatch(Cur, e))
  /\ UNCHANGED <<nEvents, userProfiles, dbProfiles, initialized>>
  /\ UNCHANGED storeVars

\* ------------------------------------------------------------- app.ts 28-29
\* typing() settled: on success toAsk is called and awaited.
typingSettled(e, ok) ==
  /\ handlers[e].pc = "typing"
  /\ IF ok
       THEN Commit([Cur EXCEPT !.handlers[e].pc = "toAsk"])
       ELSE Commit(Finally(Cur, e, TRUE))
  /\ UNCHANGED <<nEvents, userProfiles, dbProfiles, initialized>>
  /\ UNCHANGED storeVars

\* Variant: the chunks are iterated from the last one.
toAskSettled_LastFirst(e, ok, n) ==
  /\ handlers[e].pc = "toAsk"
  /\ IF ok
       THEN Commit([Cur EXCEPT !.handlers[e].pc = "flowDynamic",
                               !.handlers[e].idx = n,
                               !.handlers[e].total = n])
       ELSE Commit(Finally(Cur, e, TRUE))
  /\ UNCHANGED <<nEvents, userProfiles, dbProfiles, initialized>>
  /\ UNCHANGED storeVars

\* Variant: a failed toAsk is answered with one fallback chunk.
toAskSettled_Fallback(e, ok, n) ==
  /\ handlers[e].pc = "toAsk"
  /\ Commit([Cur EXCEPT !.handlers[e].pc = "flowDynamic",
                        !.handlers[e].idx = 1,
                        !.handlers[e].total = IF ok THEN n ELSE 1])
  /\ UNCHANGED <<nEvents, userProfiles, dbProfiles, initialized>>
  /\ UNCHANGED storeVars

\* ------------------------------------------------------------- app.ts 29-35
\* toAsk settled: the response is split into n >= 1 chunks and the first
\* one is handed to flowDynamic.
toAskSettled(e, ok, n) ==
  /\ handlers[e].pc = "toAsk"
  /\ IF ok
       THEN Commit([Cur EXCEPT !.handlers[e].pc = "flowDynamic",
                               !.handlers[e].idx = 1,
                               !.handlers[e].total = n])
       ELSE Commit(Finally(Cur, e, TRUE))
  /\ UNCHANGED <<nEvents, userProfiles, dbProfiles, initialized>>
  /\ UNCHANGED storeVars

\* ------------------------------------------------------------- app.ts 33-37
\* flowDynamic settled: next chunk, or processUserMessage is over.
flowDynamicSettled(e, ok) ==
  /\ handlers[e].pc = "flowDynamic"
  /\ IF ~ok THEN Commit(Finally(Cur, e, TRUE))
     ELSE IF handlers[e].idx < handlers[e].total
       THEN Commit([Cur EXCEPT !.handlers[e].idx = @ + 1])
       ELSE Commit(Finally(Cur, e, FALSE))
  /\ UNCHANGED <<nEvents, userProfiles, dbProfiles, initialized>>
  /\ UNCHANGED storeVars

\* ------------------------------------------------------------ store calls
\* A registerFlow invocation or an updateState call that has not been made.
NoCall == [op |-> "none", key |-> NoKey, name |-> NoName, data |-> NoData,
           pc |-> "new", stmt |-> 0, save |-> "none", sent |-> <<>>]

\* ------------------------------------------------------------ part_000 46-51
\* `await this.init()` at the head of a store operation: init() returns at
\* once when the flag is set and the operation issues its query; otherwise
\* init() issues its first statement.
init(call) ==
  IF initialized THEN [call EXCEPT !.pc = "query"]
  ELSE [call EXCEPT !.pc = "init", !.stmt = 1]

\* The store operation of a call is over (`save` tells how): its arguments
\* and init()'s position are gone.
Past(call, pc, save) ==
  [NoCall EXCEPT !.op = call.op, !.key = call.key, !.pc = pc, !.save = save,
                 !.sent = call.sent]

\* ---------------------------------------- part_000 90-93, 199-202, 307-310
\* init() or the query rejected: the store operation rejects.  updateState's
\* caller gets the rejection; registerFlow catches it (app.ts 94-99) and
\* hands the apology to flowDynamic.
Rejected(call) ==
  IF call.op = "registerFlow"
    THEN Past(call, "apology", "failed")
    ELSE Past(call, "rejected", "failed")

\* ---------------------------------------------------------- part_000 183-184
updateState(k, data) ==
  /\ nCalls < MaxCalls
  /\ nCalls' = nCalls + 1
  /\ calls' = [calls EXCEPT ![nCalls + 1] =
                 init([NoCall EXCEPT !.op = "updateState", !.key = k,
                                     !.data = data, !.save = "pending"])]
  /\ UNCHANGED <<userProfiles, dbProfiles, dbStates, initialized, lastProfile,
                 lastState>>
  /\ UNCHANGED queueVars

\* ------------------------------------------------------------- app.ts 75-80
\* registerFlow's capture callback is invoked with ctx.body = name and
\* awaits state.update({ name }).
registerFlow(k, name) ==
  /\ nCalls < MaxCalls
  /\ nCalls' = nCalls + 1
  /\ calls' = [calls EXCEPT ![nCalls + 1] =
                 [NoCall EXCEPT !.op = "registerFlow", !.key = k,
                                !.name = name, !.pc = "stateUpdate"]]
  /\ UNCHANGED <<userProfiles, dbProfiles, dbStates, initialized, lastProfile,
                 lastState>>
  /\ UNCHANGED queueVars

\* Variant: the mirror is written before the profile is saved.
stateUpdateSettled_MirrorFirst(c, ok) ==
  /\ calls[c].pc = "stateUpdate"
  /\ calls' = [calls EXCEPT ![c] =
                 IF ok THEN init([@ EXCEPT !.save = "pending"])
                 ELSE Past(@, "rejected", "none")]
  /\ userProfiles' = IF ok THEN [userProfiles EXCEPT ![calls[c].key] = calls[c].name]
                     ELSE userProfiles
  /\ UNCHANGED <<dbProfiles, dbStates, initialized, nCalls, lastProfile,
                 lastState>>
  /\ UNCHANGED queueVars

\* ------------------------------------------------------------- app.ts 80-84
\* state.update settled.  It is awaited outside the try statement: its
\* rejection leaves the handler.  Otherwise saveUserProfile is called.
stateUpdateSettled(c, ok) ==
  /\ calls[c].pc = "stateUpdate"
  /\ calls' = [calls EXCEPT ![c] =
                 IF ok THEN init([@ EXCEPT !.save = "pending"])
                 ELSE Past(@, "rejected", "none")]
  /\ UNCHANGED <<userProfiles, dbProfiles, dbStates, initialized, nCalls,
                 lastProfile, lastState>>
  /\ UNCHANGED queueVars

\* Variant: the flag is set as soon as the schema statement has succeeded.
initSettled_FlagEarly(c, ok) ==
  /\ calls[c].pc = "init"
  /\ IF ~ok
       THEN /\ calls' = [calls EXCEPT ![c] = Rejected(@)]
            /\ UNCHANGED initialized
       ELSE /\ initialized' = TRUE
            /\ calls' = [calls EXCEPT ![c] =
                           IF @.stmt < InitStatements
                             THEN [@ EXCEPT !.stmt = @ + 1]
                             ELSE [@ EXCEPT !.pc = "query", !.stmt = 0]]
  /\ UNCHANGED <<userProfiles, dbProfiles, dbStates, nCalls, lastProfile,
                 lastState>>
  /\ UNCHANGED queueVars

\* ------------------------------------------------------------ part_000 49-93
\* A statement of init() settled: the next statement is issued; after the
\* last one the flag is set and the operation issues its query; a rejection
\* is logged and thrown on.
initSettled(c, ok) ==
  /\ calls[c].pc = "init"
  /\ IF ~ok
       THEN /\ calls' = [calls EXCEPT ![c] = Rejected(@)]
            /\ UNCHANGED initialized
       ELSE IF calls[c].stmt < InitStatements
         THEN /\ calls' = [calls EXCEPT ![c].stmt = @ + 1]
              /\ UNCHANGED initialized
         ELSE /\ initialized' = TRUE
              /\ calls' = [calls EXCEPT ![c].pc = "query", ![c].stmt = 0]
  /\ UNCHANGED <<userProfiles, dbProfiles, dbStates, nCalls, lastProfile,
                 lastState>>
  /\ UNCHANGED queueVars

\* ------------------------------- part_000 186-202, 294-310, app.ts 84-90
\* The upsert settled.  saveUserProfile resolved: registerFlow writes the
\* mirror and hands the first success message to flowDynamic.
querySettled(c, ok) ==
  /\ calls[c].pc = "query"
  /\ LET call == calls[c]
         k == call.key
     IN IF ~ok
          THEN /\ calls' = [calls EXCEPT ![c] = Rejected(@)]
               /\ UNCHANGED <<userProfiles, dbProfiles, dbStates, lastProfile,
                              lastState>>
          ELSE IF call.op = "registerFlow"
            THEN /\ dbProfiles' = Upsert(dbProfiles, k, call.name)
                 /\ lastProfile' = [lastProfile EXCEPT ![k] = call.name]
                 /\ userProfiles' = [userProfiles EXCEPT ![k] = call.name]
                 /\ calls' = [calls EXCEPT ![c] = Past(@, "thanks1", "ok")]
                 /\ UNCHANGED <<dbStates, lastState>>
            ELSE /\ dbStates' = Upsert(dbStates, k, JSONStringify(call.data))
                 /\ lastState' = [lastState EXCEPT ![k] = call.data]
                 /\ calls' = [calls EXCEPT ![c] = Past(@, "resolved", "ok")]
                 /\ UNCHANGED <<userProfiles, dbProfiles, lastProfile>>
  /\ UNCHANGED <<initialized, nCalls>>
  /\ UNCHANGED queueVars

\* ------------------------------------------------------------- app.ts 89-99
\* A flowDynamic of registerFlow settled.  A rejection of a success message
\* is caught like a failed save; a rejection of the apology leaves the
\* handler.  `sent` lists the messages whose flowDynamic resolved.
replySettled(c, ok) ==
  /\ calls[c].pc \in {"thanks1", "thanks2", "apology"}
  /\ LET call == calls[c]
         delivered == [call EXCEPT !.sent = Append(@, call.pc)]
     IN calls' = [calls EXCEPT ![c] =
          IF call.pc = "thanks1"
            THEN IF ok THEN [delivered EXCEPT !.pc = "thanks2"]
                 ELSE [call EXCEPT !.pc = "apology"]
          ELSE IF call.pc = "thanks2"
            THEN IF ok THEN [delivered EXCEPT !.pc = "resolved"]
                 ELSE [call EXCEPT !.pc = "apology"]
          ELSE IF ok THEN [delivered EXCEPT !.pc = "resolved"]
               ELSE [call EXCEPT !.pc = "rejected"]]
  /\ UNCHANGED <<userProfiles, dbProfiles, dbStates, initialized, nCalls,
                 lastProfile, lastState>>
  /\ UNCHANGED queueVars

Init ==
  /\ userQueues = [k \in Keys |-> NoEntry]
  /\ userLocks = [k \in Keys |-> "absent"]
  /\ userProfiles = [k \in Keys |-> NoName]
  /\ heap = [a \in Events |-> <<>>]
  /\ handlers = [e \in Events |-> NoHandler]
  /\ nEvents = 0
  /\ dbProfiles = <<[user_id |-> "U1", value |-> "Maria"]>>
  /\ dbStates = <<>>
  /\ calls = [c \in Calls |-> NoCall]
  /\ nCalls = 0
  /\ lastProfile = [k \in Keys |-> IF k = "U1" THEN "Maria" ELSE NoName]
  /\ lastState = [k \in Keys |-> NoData]
  /\ initialized = FALSE
  /\ pushed = [k \in Keys |-> <<>>]
  /\ started = [k \in Keys |-> <<>>]
  /\ failed = {}

\* A call awaited by processUserMessage in handler e settles: it resolves
\* (ok) or rejects.
ProcessSettles(e) ==
  \/ \E ok \in BOOLEAN : typingSettled(e, ok)
  \/ \E ok \in BOOLEAN, n \in 1 .. MaxChunks : toAskSettled(e, ok, n)
  \/ \E ok \in BOOLEAN : flowDynamicSettled(e, ok)

Next ==
  \/ \E k \in Keys : anyMessageFlow(k)
  \/ \E k \in Keys : welcomeFlow(k)
  \/ \E e \in Events, initOk, queryOk \in BOOLEAN : welcomeLookup(e, initOk, queryOk)
  \/ \E e \in Events : welcomeGreeted(e)
  \/ \E e \in Events : ProcessSettles(e)

Spec == Init /\ [][Next]_vars

\* Every call processUserMessage awaits eventually settles.
FairSpec == Spec /\ \A e \in Events : WF_vars(ProcessSettles(e))

\* Only the calls made for sender U2 are known to settle; those made for U1
\* may stay pending forever.
FairSpecU2 ==
  Spec /\ \A e \in Events : WF_vars(handlers[e].key = "U2" /\ ProcessSettles(e))

\* The store side on its own: registrations and state updates, with every
\* awaited call free to resolve or reject.
StoreNext ==
  \/ \E k \in Keys, name \in Names : registerFlow(k, name)
  \/ \E k \in Keys, data \in Data : updateState(k, data)
  \/ \E c \in Calls, ok \in BOOLEAN : stateUpdateSettled(c, ok)
  \/ \E c \in Calls, ok \in BOOLEAN : initSettled(c, ok)
  \/ \E c \in Calls, ok \in BOOLEAN : querySettled(c, ok)
  \/ \E c \in Calls, ok \in BOOLEAN : replySettled(c, ok)

StoreSpec == Init /\ [][StoreNext]_vars

\* ---------------------------------------------------------------- helpers
Range(f) == {f[i] : i \in DOMAIN f}
NoDup(f) == \A i, j \in DOMAIN f : f[i] = f[j] => i = j
IsPrefix(a, b) == Len(a) <= Len(b) /\ \A i \in 1 .. Len(a) : a[i] = b[i]

\* The drain loops of key k that are between their first lock acquisition
\* and their final delete: suspended inside processUserMessage.
ActiveLoops(k) ==
  {e \in Events : handlers[e].key = k /\ handlers[e].pc \in InProcess}

\* The tasks waiting in the registry's queue of key k.
Waiting(k) == IF userQueues[k] = NoEntry THEN <<>> ELSE heap[userQueues[k]]

Pushed(e) == \E k \in Keys : e \in Range(pushed[k])
Started(e) == \E k \in Keys : e \in Range(started[k])
InFlight(e) == \E h \in Events : handlers[h].pc \in InProcess /\ handlers[h].task = e

\* ---------------------------------------------------------------------- C1
\* C1: for every sender key at most one handleQueue drain loop is active in
\* any reachable state.
C1_AtMostOneLoop == \A k \in Keys : Cardinality(ActiveLoops(k)) <= 1

\* A loop is active for k while another dispatch for k has pushed its task
\* and returned without starting a second loop.
C1_Witness ==
  \E k \in Keys : Cardinality(ActiveLoops(k)) = 1 /\ Len(Waiting(k)) >= 1

\* ---------------------------------------------------------------------- C2
\* C2: per key, processUserMessage is started on the tasks in the order in
\* which they were pushed: started[k] is a prefix of pushed[k].
C2_Fifo == \A k \in Keys : IsPrefix(started[k], pushed[k])

\* Three tasks of one key, pushed in an order that differs from the order in
\* which their events arrived, have all been started.
C2_Witness ==
  \E k \in Keys : /\ Len(pushed[k]) = 3
                  /\ started[k] = pushed[k]
                  /\ pushed[k][1] > pushed[k][2]

\* ---------------------------------------------------------------------- C3
\* C3: when every call made by processUserMessage eventually settles, every
\* task pushed onto a key's queue is eventually handed to processUserMessage.
C3_NoStranding == \A e \in Events : Pushed(e) ~> Started(e)

\* A loop of key k has ended (its task is no longer in flight) and a task
\* pushed after that has been started by a fresh loop on a fresh array.
C3_Witness ==
  \E k \in Keys, e \in Events :
    /\ e \in ActiveLoops(k)
    /\ userQueues[k] = e
    /\ handlers[e].task = e
    /\ Len(started[k]) >= 2

\* ---------------------------------------------------------------------- C4
\* C4: no push for key k falls between the drain loop's last emptiness test
\* and its release.  A push made while a loop of k is suspended lands in the
\* array that loop iterates, before its last test; a push made when no loop
\* of k is suspended finds lock and queue entry both deleted and its
\* dispatcher starts a fresh loop on the pushed task.
C4_PushOK(k, e) ==
  IF ActiveLoops(k) # {}
    THEN \A l \in ActiveLoops(k) :
           /\ handlers'[l] = handlers[l]
           /\ e \in Range(heap'[handlers[l].queue])
    ELSE /\ userLocks[k] = "absent"
         /\ userQueues[k] = NoEntry
         /\ handlers'[e].pc \in InProcess
         /\ handlers'[e].task = e
         /\ handlers'[e].queue = userQueues'[k]

C4_CheckAndReleaseAtomic ==
  [][\A k \in Keys, e \in Events :
       (e \notin Range(pushed[k]) /\ e \in Range(pushed'[k])) => C4_PushOK(k, e)]_vars

\* Key k has seen both cases: a first loop ended, event e then started a
\* fresh loop, and a later push landed in the array that loop iterates.
C4_Witness ==
  \E k \in Keys, e \in Events :
    /\ e \in ActiveLoops(k)
    /\ handlers[e].queue = e
    /\ userQueues[k] = e
    /\ Len(started[k]) = 2
    /\ started[k][2] = e
    /\ Len(Waiting(k)) = 1

\* ---------------------------------------------------------------------- C5
\* C5: when processUserMessage rejects for a task, the tasks queued behind
\* it are untouched and in the same order, and the same drain loop goes on
\* with the first of them.
RejectStep(e) ==
  \/ typingSettled(e, FALSE)
  \/ \E n \in 1 .. MaxChunks : toAskSettled(e, FALSE, n)
  \/ flowDynamicSettled(e, FALSE)

C5_Post(e) ==
  LET q == handlers[e].queue
      behind == heap[q]
  IN /\ handlers'[e].pc = "typing"
     /\ handlers'[e].task = Head(behind)
     /\ handlers'[e].queue = q
     /\ userQueues'[handlers[e].key] = q
     /\ heap'[q] = Tail(behind)

C5_FailureKeepsQueue ==
  [][\A e \in Events :
       (/\ handlers[e].pc \in InProcess
        /\ Len(heap[handlers[e].queue]) > 0
        /\ RejectStep(e)) => C5_Post(e)]_vars

\* After a rejected task the loop is processing the next one and a third
\* task is still waiting behind it.
C5_Witness ==
  \E k \in Keys, e \in Events :
    /\ e \in ActiveLoops(k)
    /\ handlers[e].pc = "typing"
    /\ Len(started[k]) = 2
    /\ started[k][1] \in failed
    /\ handlers[e].task = started[k][2]
    /\ Len(Waiting(k)) = 1

\* ---------------------------------------------------------------------- C6
\* C6: every task is handed to processUserMessage at most once: a task that
\* has been handed over is in no queue again and is in flight in at most
\* one handler; a task whose processing failed is neither in flight again
\* nor in any queue.
C6_AtMostOnce ==
  /\ \A k \in Keys :
       /\ NoDup(started[k])
       /\ NoDup(pushed[k])
       /\ \A t \in Range(started[k]) :
            /\ \A a \in Events : t \notin Range(heap[a])
            /\ Cardinality({h \in Events : handlers[h].task = t}) <= 1
  /\ \A t \in failed :
       /\ Started(t)
       /\ ~InFlight(t)
       /\ \A a \in Events : t \notin Range(heap[a])

\* A task failed, its loop has gone on to a later task and has ended; the
\* failed task was started once and is neither queued nor in flight.
C6_Witness ==
  \E k \in Keys :
    /\ Len(started[k]) >= 2
    /\ started[k][1] \in failed
    /\ ActiveLoops(k) = {}

\* ---------------------------------------------------------------------- C7
\* C7: userQueues has an entry for a key exactly when that queue is
\* non-empty or a drain loop of the key is in the middle of an iteration.
C7_QueueEntry ==
  \A k \in Keys :
    (userQueues[k] # NoEntry) <=> (Len(Waiting(k)) > 0 \/ ActiveLoops(k) # {})

\* One key keeps its (empty) entry while its loop is mid-iteration, the
\* other key's loop has finished and its entry is gone.
C7_Witness ==
  \E k1, k2 \in Keys :
    /\ ActiveLoops(k1) # {}
    /\ userQueues[k1] # NoEntry
    /\ Waiting(k1) = <<>>
    /\ started[k2] # <<>>
    /\ ActiveLoops(k2) = {}
    /\ userQueues[k2] = NoEntry

\* ---------------------------------------------------------------------- C8
\* C8: at every suspension point userLocks[k] is true exactly when a drain
\* loop of k has a task in flight, and has no entry when no loop is active.
C8_LockIffInFlight ==
  \A k \in Keys :
    /\ (userLocks[k] = "true") <=>
         (\E e \in ActiveLoops(k) : handlers[e].task \in Range(started[k]))
    /\ ActiveLoops(k) = {} => userLocks[k] = "absent"

\* One key's loop goes on after a failed task with the lock set, while all
\* tasks of the other key failed, its loop has ended and left no lock.
C8_Witness ==
  \E k1, k2 \in Keys :
    /\ ActiveLoops(k1) # {}
    /\ Len(started[k1]) = 2
    /\ started[k1][1] \in failed
    /\ userLocks[k1] = "true"
    /\ started[k2] # <<>>
    /\ Range(started[k2]) \subseteq failed
    /\ ActiveLoops(k2) = {}
    /\ userLocks[k2] = "absent"

\* ---------------------------------------------------------------------- C9
\* C9: processing of U1 never blocks U2: even when calls made for U1 never
\* settle, every task pushed for U2 is started and processed to completion,
\* in the order in which U2's tasks were pushed.
C9_NoCrossKeyBlocking ==
  /\ \A e \in Events :
       (e \in Range(pushed["U2"])) ~> (e \in Range(started["U2"]) /\ ~InFlight(e))
  /\ [](IsPrefix(started["U2"], pushed["U2"]))

\* A task of U1 is in flight while a task of U2 that arrived later has been
\* processed to completion.
C9_Witness ==
  \E e1, e2 \in Events :
    /\ e1 < e2
    /\ e1 \in ActiveLoops("U1")
    /\ handlers[e1].task = e1
    /\ e2 \in Range(started["U2"])
    /\ ActiveLoops("U2") = {}

\* --------------------------------------------------------------------- C10
\* C10: for one key the calls of different tasks are never interleaved and
\* the chunks of a task are delivered in order, one after the other.  At
\* most one call is pending per key and it belongs to the task started
\* last; a handler starts a call only when its previous call has settled,
\* and the new call is the next one of the same task (typing, toAsk,
\* chunk 1, chunk 2, ...) or the typing call of the next pushed task.
C10_State ==
  \A k \in Keys :
    /\ Cardinality(ActiveLoops(k)) <= 1
    /\ \A e \in ActiveLoops(k) : handlers[e].task = started[k][Len(started[k])]

C10_Step(e) ==
  LET h == handlers[e]
      h2 == handlers'[e]
      k == h2.key
  IN (h2.pc \in InProcess /\ <<h2.task, h2.pc, h2.idx>> # <<h.task, h.pc, h.idx>>) =>
       IF h.pc \in InProcess /\ h2.task = h.task
         THEN \/ h.pc = "typing" /\ h2.pc = "toAsk"
              \/ h.pc = "toAsk" /\ h2.pc = "flowDynamic" /\ h2.idx = 1
                                /\ h2.total \in 1 .. MaxChunks
              \/ h.pc = "flowDynamic" /\ h2.pc = "flowDynamic"
                                /\ h2.idx = h.idx + 1 /\ h2.idx <= h.total
                                /\ h2.total = h.total
         ELSE /\ h2.pc = "typing"
              /\ ActiveLoops(k) \subseteq {e}
              /\ started'[k] = Append(started[k], h2.task)

C10_NoInterleaving ==
  [][C10_State' /\ \A e \in Events : C10_Step(e)]_vars

\* The second chunk of a key's second task is being delivered after the
\* first task of the key was answered without a failure.
C10_Witness ==
  \E k \in Keys, e \in Events :
    /\ e \in ActiveLoops(k)
    /\ Len(started[k]) >= 2
    /\ handlers[e].pc = "flowDynamic"
    /\ handlers[e].idx = 2
    /\ failed = {}

\* --------------------------------------------------------------------- C11
\* C11: when the delivery of one chunk of a task's answer fails and chunks
\* of that answer are left, the handler goes on with the next chunk of the
\* same task; when the failed chunk was the last one, the drain loop goes on
\* with the next task of the key (or ends when none is waiting).
C11_Post(e) ==
  LET h == handlers[e]
      h2 == handlers'[e]
  IN IF h.idx < h.total
       THEN /\ h2.pc = "flowDynamic"
            /\ h2.task = h.task
            /\ h2.idx = h.idx + 1
       ELSE IF Len(heap[h.queue]) > 0
         THEN h2.pc = "typing" /\ h2.task = Head(heap[h.queue])
         ELSE h2.pc = "done"

C11_RemainingChunksAttempted ==
  [][\A e \in Events :
       (handlers[e].pc = "flowDynamic" /\ flowDynamicSettled(e, FALSE))
         => C11_Post(e)]_vars

\* --------------------------------------------------------------------- C12
\* C12: when toAsk rejects for a task, no chunk of that task is handed to
\* flowDynamic (none before the rejection, none after it), the task has left
\* the queue and counts as processed, and the drain loop goes on with the
\* next task of the key, or releases the key when none is waiting.
C12_Post(e) ==
  LET h == handlers[e]
      h2 == handlers'[e]
      k == h.key
      q == h.queue
  IN /\ h.idx = 0 /\ h.total = 0
     /\ h2.task # h.task
     /\ h.task \in Range(started'[k]) /\ h.task \in failed'
     /\ \A a \in Events : h.task \notin Range(heap'[a])
     /\ IF Len(heap[q]) > 0
          THEN /\ h2.pc = "typing"
               /\ h2.task = Head(heap[q])
               /\ heap'[q] = Tail(heap[q])
               /\ userLocks'[k] = "true"
          ELSE /\ h2.pc = "done"
               /\ userLocks'[k] = "absent"
               /\ userQueues'[k] = NoEntry

C12_AskFailureSkipsTask ==
  /\ [][\A e \in Events :
          (handlers[e].pc = "toAsk" /\ \E n \in 1 .. MaxChunks : toAskSettled(e, FALSE, n))
            => C12_Post(e)]_vars
  /\ [](\A e \in Events :
          /\ handlers[e].pc \in {"typing", "toAsk"}
               => handlers[e].idx = 0 /\ handlers[e].total = 0
          /\ handlers[e].pc = "flowDynamic" => handlers[e].task \notin failed)

\* Every rejection inside processUserMessage leaves the loop in the same
\* state, so the state a toAsk rejection leaves is: the key's first task
\* failed, its second one was answered, and the same loop is delivering the
\* answer to the third.
C12_Witness ==
  \E k \in Keys, e \in Events :
    /\ e \in ActiveLoops(k)
    /\ Len(started[k]) = 3
    /\ started[k][1] \in failed
    /\ started[k][2] \notin failed
    /\ handlers[e].task = started[k][3]
    /\ handlers[e].pc = "flowDynamic"

\* --------------------------------------------------------------------- C13
\* C13: when events of one key arrive while an earlier event of the key is
\* being processed, only the first event's dispatcher runs a drain loop.
\* At every suspension point at which a loop of the key runs, it is the
\* key's only loop, it is processing the key's latest started task, and
\* every handler that pushed after the loop's own task has returned (it
\* neither started a loop nor waits for any processing).  When no handler of
\* the key is suspended any more, every pushed task has been processed, the
\* queue entry is removed and the lock is released.
IndexOf(f, x) == CHOOSE i \in DOMAIN f : f[i] = x

C13_DuringLoop ==
  \A k \in Keys : \A l \in ActiveLoops(k) :
    /\ ActiveLoops(k) = {l}
    /\ l \in Range(started[k])
    /\ handlers[l].task = started[k][Len(started[k])]
    /\ \A j \in (IndexOf(pushed[k], l) + 1) .. Len(pushed[k]) :
         handlers[pushed[k][j]].pc = "done"

C13_Quiescent ==
  \A k \in Keys :
    (\A e \in Events : handlers[e].key = k => handlers[e].pc = "done") =>
      /\ started[k] = pushed[k]
      /\ userQueues[k] = NoEntry
      /\ userLocks[k] = "absent"

C13_SingleLoopDrainsAll == C13_DuringLoop /\ C13_Quiescent

\* Three tasks of one key: the handler of the first pushed one is processing
\* the third, the other two handlers have returned.
C13_Witness ==
  \E k \in Keys :
    /\ Len(pushed[k]) = 3
    /\ started[k] = pushed[k]
    /\ ActiveLoops(k) = {pushed[k][1]}
    /\ handlers[pushed[k][1]].task = pushed[k][3]

\* --------------------------------------------------------------------- C14
\* C14: whatever getUserProfile settles with in welcomeFlow (a profile, no
\* profile, or a throw) and whatever becomes of the greeting, the handler
\* goes on to its dispatcher segment: the event's task is pushed onto the
\* sender's queue, and it is started at once when no loop of the key is
\* active, or lands in the running loop's array otherwise.  No handler ends
\* without having pushed its task.
C14_Post(e) ==
  LET k == handlers[e].key
  IN \/ handlers[e].pc = "getUserProfile" /\ handlers'[e].pc = "greet"
     \/ /\ pushed'[k] = Append(pushed[k], e)
        /\ IF ActiveLoops(k) = {}
             THEN handlers'[e].pc \in InProcess /\ handlers'[e].task = e
             ELSE /\ handlers'[e].pc = "done"
                  /\ \A l \in ActiveLoops(k) : e \in Range(heap'[handlers[l].queue])

C14_LookupNeverDropsTask ==
  /\ [][\A e \in Events :
          (handlers[e].pc \in {"getUserProfile", "greet"} /\ handlers'[e] # handlers[e])
            => C14_Post(e)]_vars
  /\ [](\A e \in Events : handlers[e].pc \in {"done", "error"} => Pushed(e))

\* The store is still uninitialized, so every lookup made so far threw; the
\* event that arrived first went through welcomeFlow (its task was pushed
\* after that of a later event) and its task has been started all the same.
C14_Witness ==
  \E k \in Keys :
    /\ ~initialized
    /\ Len(pushed[k]) >= 2
    /\ pushed[k][1] > pushed[k][2]
    /\ pushed[k][2] \in Range(started[k])

\* --------------------------------------------------------------------- C18
\* C18: a dispatcher that pushes for key k evaluates
\* `!userLocks.get(userId) && queue.length === 1` on a queue one longer than
\* the one it found.  It never finds the lock not held and the queue longer
\* than 1; in particular, when no loop of k is active the queue it pushes
\* onto is empty, so the length test cannot keep it from starting a loop.
LengthAfterPush(k) == Len(Waiting(k)) + 1

C18_NoLostWakeup ==
  \A k \in Keys :
    /\ ~(~LockHeld(Cur, k) /\ LengthAfterPush(k) > 1)
    /\ ActiveLoops(k) = {} => ~LockHeld(Cur, k) /\ LengthAfterPush(k) = 1

\* Two dispatchers of one key have found the lock held, the second of them
\* with a queue length of 2 after its push; both returned and the running
\* loop has their tasks in its array.
C18_Witness ==
  \E k \in Keys, e \in Events :
    /\ LockHeld(Cur, k)
    /\ ActiveLoops(k) = {e}
    /\ Len(heap[handlers[e].queue]) = 2
    /\ Len(pushed[k]) = 3

\* --------------------------------------------------------------------- C19
\* C19: while a drain loop of key k is active, the array it captured at its
\* start is the array userQueues maps k to: the entry is neither deleted nor
\* replaced under a running loop, so every push made for k during the drain
\* lands in the array the loop iterates.
C19_NoStaleQueue ==
  \A k \in Keys : \A e \in ActiveLoops(k) :
    /\ userQueues[k] # NoEntry
    /\ handlers[e].queue = userQueues[k]
    /\ \A t \in Range(pushed[k]) :
         t \in Range(started[k]) \/ t \in Range(heap[handlers[e].queue])

\* The key's entry was deleted by a first loop and created again by the
\* event that runs the second loop; a task pushed during the second drain
\* waits in the array that loop iterates.
C19_Witness ==
  \E k \in Keys, e \in Events :
    /\ e \in ActiveLoops(k)
    /\ e # pushed[k][1]
    /\ handlers[e].queue = e
    /\ userQueues[k] = e
    /\ Len(heap[e]) = 1

\* --------------------------------------------------------------------- C20
\* C20: handleQueue is only called for a key that has a queue entry and
\* whose lock is not held: no call returns at the lock test of line 45, no
\* call finds userQueues.get(userId) undefined, and a lock entry for a key
\* always comes with a queue entry for that key.
C20_HandleQueuePrecondition ==
  /\ \A e \in Events : handlers[e].pc \notin {"locked", "error"}
  /\ \A k \in Keys : userLocks[k] # "absent" => userQueues[k] # NoEntry
  /\ \A e \in Events :
       handlers[e].pc \in InProcess => handlers[e].queue # NoEntry

\* handleQueue has been called three times for one key, each time on a
\* fresh entry, and the third call's loop is running under the lock.
C20_Witness ==
  \E k \in Keys, e \in Events :
    /\ Len(started[k]) = 3
    /\ e = started[k][3]
    /\ handlers[e].pc \in InProcess
    /\ handlers[e].queue = e
    /\ userLocks[k] = "true"

\* --------------------------------------------------------------------- C15
\* The saveUserProfile call of registerFlow invocation c rejects in this
\* step: a statement of init() or the upsert fails.
SaveFails(c) ==
  /\ calls[c].op = "registerFlow"
  /\ initSettled(c, FALSE) \/ querySettled(c, FALSE)

\* The step at which the save fails hands the apology to flowDynamic and
\* leaves the mirror alone; the mirror of a key changes only in the step in
\* which a registerFlow's upsert for that key succeeds, and to the saved name.
C15_Step ==
  /\ \A c \in Calls :
       SaveFails(c) => /\ calls'[c].pc = "apology"
                       /\ calls'[c].sent = <<>>
                       /\ userProfiles' = userProfiles
  /\ \A k \in Keys :
       userProfiles'[k] # userProfiles[k] =>
         \E c \in Calls : /\ calls[c].op = "registerFlow"
                          /\ calls[c].key = k
                          /\ calls[c].pc = "query"
                          /\ calls'[c].save = "ok"
                          /\ userProfiles'[k] = calls[c].name
                          /\ getUserProfile(k, TRUE, TRUE)' = calls[c].name

\* After a failed save no success message is ever delivered, and a handler
\* that has completed has delivered the apology.
C15_AfterFailedSave(c) ==
  /\ calls[c].pc \in {"apology", "resolved", "rejected"}
  /\ "thanks1" \notin Range(calls[c].sent)
  /\ "thanks2" \notin Range(calls[c].sent)
  /\ calls[c].pc = "resolved" => calls[c].sent = <<"apology">>

C16_Rows ==
  \A k \in Keys :
    /\ Cardinality(RowsOf(dbProfiles, k)) <= 1
    /\ Cardinality(RowsOf(dbStates, k)) <= 1
    /\ lastProfile[k] # NoName => getUserProfile(k, TRUE, TRUE) = lastProfile[k]

C17_Step ==
  /\ (~initialized /\ initialized') =>
       \E c \in Calls : /\ calls[c].pc = "init"
                        /\ calls[c].stmt = InitStatements
                        /\ initSettled(c, TRUE)
  /\ \A c \in Calls :
       /\ (calls[c].pc = "init" /\ initSettled(c, FALSE)) =>
            /\ initialized' = initialized
            /\ calls'[c].save = "failed"
            /\ calls'[c].pc = IF calls[c].op = "registerFlow" THEN "apology"
                              ELSE "rejected"
            /\ UNCHANGED <<dbProfiles, dbStates>>
       /\ (calls[c].save = "none" /\ calls'[c].save = "pending") =>
            IF initialized
              THEN calls'[c].pc = "query" /\ calls'[c].stmt = 0
              ELSE calls'[c].pc = "init" /\ calls'[c].stmt = 1

C17_State ==
  \A c \in Calls :
    /\ calls[c].pc = "init" <=> calls[c].stmt \in 1 .. InitStatements
    /\ (calls[c].pc = "query" \/ calls[c].save = "ok") => initialized

====
